---- MODULE Spec2Model ----
(***************************************************************************)
(* Job lifecycle and progress notification of the pitch-deck backend:      *)
(* progress.Tracker (internal/progress/progress.go), the orchestrator      *)
(* PitchDeckService.Create / processDeck / handleError and the job-record  *)
(* calls Get / SavePitchDeckRecord / UpdateStatus / UpdateVisibility       *)
(* (internal/service/pitch_deck.go), the relay PitchDeckHandler.GetProgress*)
(* (internal/handler/pitch_deck.go), and the monolith's generatePitchDeck, *)
(* processPitchDeck and progress route (main.go).                          *)
(*   Spec / FairSpec : service, handler and Tracker, one step per call     *)
(*   CreateSpec      : handler Create with any request body, and the runs  *)
(*   TrackerSpec     : Tracker methods statement by statement, any caller  *)
(*   StoreSpec       : the job-record calls                                *)
(*   MonoSpec        : the monolith                                        *)
(*   CleanSpec       : cleanMarpContent applied to a bounded text          *)
(***************************************************************************)
EXTENDS Integers, Sequences, FiniteSets, TLC

\* ---------------------------------------------------------------- bounds
\* how many tasks (processDeck runs plus GetProgress requests) one behaviour
\* starts
MaxTasks == 3

\* the job ids uuid.New can return and the GetProgress requests that can be made
JobIds == {1, 2}
Subs   == {1, 2}
Users  == {"alice", "bob"}
\* a credential resolves to a user id or is rejected by validateToken
Tokens == Users \cup {"invalid"}
\* the error value a collaborator returns when it fails
ErrValues == {"exit status 1"}

\* make(chan string, 10)
ChanCap == 10
\* Create requests answered in the behaviours of CreateSpec
MaxPosts == 3

\* absent map entry / nil channel
Nil == 0
NoOwner == "none"

VARIABLES
    channels,   \* Tracker.channels : job id -> channel (index into chans) or Nil
    owners,     \* Tracker.owners   : job id -> user id or NoOwner
    chans,      \* every channel made so far: [buf : Seq(event), closed : BOOLEAN]
    storage,    \* PitchDeckService.storage # nil
    runs,       \* one processDeck task per job id: position and locals
    subs,       \* one GetProgress request per subscriber
    recv,       \* what each GetProgress relay has written to its response
    emitted,    \* per job: the updates whose SendUpdate returned nil, in order
    calls,      \* per job: the Tracker calls its run has completed, in order
    records,    \* the pitch_decks table: job id -> record or NoRecord
    ops,        \* the Tracker call each goroutine calling the Tracker directly is in
    mu,         \* Tracker.mu: the goroutine holding Lock, the goroutines holding RLock
    reply,      \* the last UpdateVisibility call and what it returned
    post,       \* handler Create: the requests answered so far and the last answer
    marp        \* cleanMarpContent: the text it is given and the text it returns

vars == <<channels, owners, chans, storage, runs, subs, recv, emitted, calls,
          records, ops, mu, reply, post, marp>>

\* ------------------------------------------------- strings and events
\* A Go string built by concatenation is the sequence of its pieces; "" is <<>>.
EmptyStr == <<>>

\* fmt.Sprintf("%s: %v", message, err)
Sprintf(message, err) == <<message, ": ", err>>

\* progress.ProgressUpdate
ProgressUpdate(status, step, message, dl, view) ==
    [Status |-> status, CurrentStep |-> step, Message |-> message,
     DownloadUrl |-> dl, ViewUrl |-> view]

\* json.Marshal(update): the fields in declaration order, the two omitempty
\* fields left out when empty
Marshal(u) ==
    <<  <<"status", u.Status>>, <<"currentStep", u.CurrentStep>>,
        <<"message", u.Message>> >>
    \o (IF u.DownloadUrl = EmptyStr THEN <<>> ELSE << <<"downloadUrl", u.DownloadUrl>> >>)
    \o (IF u.ViewUrl = EmptyStr THEN <<>> ELSE << <<"viewUrl", u.ViewUrl>> >>)

HasField(e, k) == \E i \in 1..Len(e) : e[i][1] = k
Field(e, k) == e[CHOOSE i \in 1..Len(e) : e[i][1] = k][2]
\* what a JSON client reads: an omitted string field is ""
StrField(e, k) == IF HasField(e, k) THEN Field(e, k) ELSE EmptyStr

\* SupabaseStorage.UploadFile on success: the public URL of the object
PublicURL(bucketName, fileName) ==
    <<"/storage/v1/object/public/", bucketName, "/">> \o fileName

\* ------------------------------------------------------------- Tracker
\* GetChannel without the owner comparison of line 48
GetChannel_NoOwnerCheck(id, userID) ==
    IF channels[id] = Nil THEN <<Nil, FALSE>> ELSE <<channels[id], TRUE>>

\* GetChannel that reports not-found to a non-owner and still hands out the channel
GetChannel_LeaksChannel(id, userID) ==
    IF channels[id] = Nil THEN <<Nil, FALSE>>
    ELSE IF owners[id] = NoOwner \/ owners[id] # userID THEN <<channels[id], FALSE>>
    ELSE <<channels[id], TRUE>>

\* Tracker.GetChannel(id, userID) -> (chan, bool)
GetChannel(id, userID) ==
    IF channels[id] = Nil THEN <<Nil, FALSE>>
    ELSE IF owners[id] = NoOwner \/ owners[id] # userID THEN <<Nil, FALSE>>
    ELSE <<channels[id], TRUE>>

\* the lookup SendUpdate makes under the read lock: ch, exists := t.channels[id]
SendLookup(id) == channels[id]

\* a one-slot channel: a value sent replaces what has not been read
ChanSend_KeepsLatest(buf, data) == <<data>>

\* a queue that hands out the newest element first
ChanSend_Front(buf, data) == <<data>> \o buf

\* ch <- data on an open channel with room: data joins the back of the queue
ChanSend(buf, data) == Append(buf, data)

\* make(chan string, 10): the new channel is the next entry of chans
MakeChan(cs) == Append(cs, [buf |-> <<>>, closed |-> FALSE])

\* Tracker.CreateChannel(id, userID): registers a new channel and the owner
CreateChannel(id, userID) ==
    /\ chans' = MakeChan(chans)
    /\ channels' = [channels EXCEPT ![id] = Len(chans) + 1]
    /\ owners' = [owners EXCEPT ![id] = userID]

\* CloseChannel that closes the channel and leaves both map entries
CloseChannel_KeepsEntry(id) ==
    IF channels[id] # Nil
    THEN /\ chans' = [chans EXCEPT ![channels[id]].closed = TRUE]
         /\ UNCHANGED <<channels, owners>>
    ELSE UNCHANGED <<chans, channels, owners>>

\* CloseChannel that closes the channel and empties both maps
CloseChannel_ClearsAll(id) ==
    IF channels[id] # Nil
    THEN /\ chans' = [chans EXCEPT ![channels[id]].closed = TRUE]
         /\ channels' = [k \in JobIds |-> Nil]
         /\ owners' = [k \in JobIds |-> NoOwner]
    ELSE UNCHANGED <<chans, channels, owners>>

\* Tracker.CloseChannel(id): close and unregister, only if registered
CloseChannel(id) ==
    IF channels[id] # Nil
    THEN /\ chans' = [chans EXCEPT ![channels[id]].closed = TRUE]
         /\ channels' = [channels EXCEPT ![id] = Nil]
         /\ owners' = [owners EXCEPT ![id] = NoOwner]
    ELSE UNCHANGED <<chans, channels, owners>>

\* --------------------------------------------------- processDeck updates
\* a processing update that already names where the PDF will be
ProcessingUpdate_NamesDownload(step, message) ==
    ProgressUpdate("processing", step, <<message>>, <<"output/", "deck.pdf">>, EmptyStr)

ProcessingUpdate(step, message) ==
    ProgressUpdate("processing", step, <<message>>, EmptyStr, EmptyStr)

\* handleError's update: Status and Message only (CurrentStep is the zero value)
FailedUpdate(message, err) ==
    ProgressUpdate("failed", 0, Sprintf(message, err), EmptyStr, EmptyStr)

CompletedUpdate(pdfURL, htmlURL) ==
    ProgressUpdate("completed", 5, <<"Generation completed">>, pdfURL, htmlURL)

\* processDeck numbering two updates alike
UpdateAt_RepeatedStep(r) ==
    CASE r.pc = "send1" -> ProcessingUpdate(1, "Processing images...")
      [] r.pc = "send2" -> ProcessingUpdate(2, "Generating content...")
      [] r.pc = "send3" -> ProcessingUpdate(3, "Converting to PDF and HTML...")
      [] r.pc = "send4" -> ProcessingUpdate(3, "Uploading files...")
      [] r.pc = "send5" -> CompletedUpdate(r.pdfURL, r.htmlURL)
      [] r.pc = "sendF" -> FailedUpdate(r.message, r.err)

\* the update each SendUpdate call of processDeck / handleError passes
UpdateAt(r) ==
    CASE r.pc = "send1" -> ProcessingUpdate(1, "Processing images...")
      [] r.pc = "send2" -> ProcessingUpdate(2, "Generating content...")
      [] r.pc = "send3" -> ProcessingUpdate(3, "Converting to PDF and HTML...")
      [] r.pc = "send4" -> ProcessingUpdate(4, "Uploading files...")
      [] r.pc = "send5" -> CompletedUpdate(r.pdfURL, r.htmlURL)
      [] r.pc = "sendF" -> FailedUpdate(r.message, r.err)

SendPoints == {"send1", "send2", "send3", "send4", "send5", "sendF"}

\* the statement of processDeck / handleError that follows each SendUpdate call
AfterSend(pc) ==
    CASE pc = "send1" -> "images"
      [] pc = "send2" -> "generate"
      [] pc = "send3" -> "pdf"
      [] pc = "send4" -> "uploadPdf"
      [] pc = "send5" -> "statusCompleted"
      [] pc = "sendF" -> "statusFailed"

\* a processDeck task: position, deckInfo.UserID, the progressChan argument,
\* pdfURL / htmlURL, and handleError's arguments; failed names the call that
\* returned the error handed to handleError; logged names the call whose error
\* was only logged (SavePitchDeckRecord, or UpdateStatus until the run returns)
NoRun == [pc |-> "none", userID |-> NoOwner, progressChan |-> Nil,
          pdfURL |-> EmptyStr, htmlURL |-> EmptyStr,
          failed |-> "", message |-> "", err |-> "", logged |-> ""]

\* a GetProgress request: its outcome, the deck id and user id it asked with,
\* and the channel it streams from
IdleSub == [state |-> "idle", id |-> Nil, userID |-> NoOwner, ch |-> Nil]

Terminal(e) == Field(e, "status") \in {"completed", "failed"}

\* ------------------------------------------------------- job-record store
\* no row of pitch_decks has this id
NoRecord == [exists |-> FALSE, userID |-> NoOwner, status |-> "",
             isPublic |-> FALSE, pdfURL |-> EmptyStr, htmlURL |-> EmptyStr]

\* SavePitchDeckRecord, request accepted: POST of a new row, private, status
\* "completed"
InsertRecord(recs, deckID, userID, pdfURL, htmlURL) ==
    [recs EXCEPT ![deckID] = [exists |-> TRUE, userID |-> userID, status |-> "completed",
                              isPublic |-> FALSE, pdfURL |-> pdfURL, htmlURL |-> htmlURL]]

\* UpdateStatus, request accepted: PATCH ...?id=eq.<deckID> changes the rows
\* that match, none if there is no such row
PatchStatus(recs, deckID, status) ==
    IF recs[deckID].exists THEN [recs EXCEPT ![deckID].status = status] ELSE recs

\* UpdateVisibility's PATCH of is_public
PatchVisibility(recs, deckID, isPublic) ==
    IF recs[deckID].exists THEN [recs EXCEPT ![deckID].isPublic = isPublic] ELSE recs

\* PitchDeckService.Get: the row, or "deck not found" (exists = FALSE)
Get(deckID) == records[deckID]

\* goroutines that call the Tracker directly, one call each
Procs == {1, 2, 3}
TrackerOps == {"CreateChannel", "GetChannel", "CloseChannel", "SendUpdate"}
\* a Tracker call: the method, the position in it, its arguments, the channel it
\* looked up or made, and what it returned
IdleOp == [op |-> "", pc |-> "idle", id |-> Nil, userID |-> NoOwner, ch |-> Nil, ret |-> ""]
\* sync.RWMutex, unlocked
Unlocked == [w |-> Nil, r |-> {}]
\* an UpdateVisibility call that has returned: its arguments, the error it
\* returned ("" is nil), the owner Get read, and the is_public flag of the row
\* when the call started and when it returned
NoReply == [deckID |-> Nil, userID |-> NoOwner, isPublic |-> FALSE, err |-> "",
            owner |-> NoOwner, before |-> FALSE, after |-> FALSE]

\* the themes a deck may be rendered with
availableThemes == {"default", "gaia", "uncover", "rose-pine"}
\* request bodies of POST /api/pitch-decks: not JSON, or JSON with a theme
Themes == {"default", "neon"}
Malformed == [wellFormed |-> FALSE, theme |-> ""]
Bodies == {Malformed} \cup {[wellFormed |-> TRUE, theme |-> t] : t \in Themes}
\* handler Create: requests answered, requests answered 200, the body of the
\* last request, its answer (code, error, deckId), and the UserID and Status of
\* the deckInfo service Create returned
NoPost == [n |-> 0, ok |-> 0, body |-> Malformed, code |-> 0, error |-> "", deckId |-> Nil,
           userID |-> NoOwner, status |-> ""]

\* --------------------------------------------------- cleanMarpContent
\* A text is the sequence of its characters: a backtick, a letter, "\r", "\n".
\* the backtick character (U+0060)
Backtick == "bt"
Fence == <<Backtick, Backtick, Backtick>>
\* the lines a text is made of: empty, prose, two backticks, a bare fence, a
\* fence with an info string, backticks that are not at the start of the line
Lines == {<<>>, <<"a">>, <<Backtick, Backtick>>, Fence, Fence \o <<"a">>, <<"a">> \o Fence}
MaxLines == 4
\* line ends the collaborator's text may use
Eols == {<<"\n">>, <<"\r", "\n">>}

\* strings.HasPrefix(s, prefix)
HasPrefix(s, prefix) ==
    Len(s) >= Len(prefix) /\ SubSeq(s, 1, Len(prefix)) = prefix

\* strings.Join(elems, sep)
RECURSIVE Join(_, _)
Join(elems, sep) ==
    IF elems = <<>> THEN <<>>
    ELSE IF Len(elems) = 1 THEN elems[1]
    ELSE elems[1] \o sep \o Join(Tail(elems), sep)

\* regexp.MustCompile(`\r?\n`).Split(text, -1): `line` is the piece being read
RECURSIVE SplitFrom(_, _)
SplitFrom(text, line) ==
    IF text = <<>> THEN <<line>>
    ELSE IF Head(text) = "\n" THEN <<line>> \o SplitFrom(Tail(text), <<>>)
    ELSE IF Len(text) >= 2 /\ text[1] = "\r" /\ text[2] = "\n"
    THEN <<line>> \o SplitFrom(SubSeq(text, 3, Len(text)), <<>>)
    ELSE SplitFrom(Tail(text), Append(line, Head(text)))
Split(text) == SplitFrom(text, <<>>)

\* the indexes (from 0, as in Go) of the lines that start with three backticks
BacktickLines(lines) == {i \in 0..(Len(lines) - 1) : HasPrefix(lines[i + 1], Fence)}
firstBacktickLine(lines) ==
    IF BacktickLines(lines) = {} THEN -1
    ELSE CHOOSE i \in BacktickLines(lines) : \A j \in BacktickLines(lines) : i <= j
lastBacktickLine(lines) ==
    IF BacktickLines(lines) = {} THEN -1
    ELSE CHOOSE i \in BacktickLines(lines) : \A j \in BacktickLines(lines) : j <= i

\* a cleanMarpContent whose slice keeps the closing fence line
cleanMarpContent_KeepsClosing(text) ==
    LET lines == Split(text)
        first == firstBacktickLine(lines)
        last == lastBacktickLine(lines)
    IN  IF first # -1 /\ last # -1 /\ last > first
        THEN Join(SubSeq(lines, first + 2, last + 1), <<"\n">>)
        ELSE text

\* cleanMarpContent(text): lines[firstBacktickLine+1 : lastBacktickLine] joined
\* with "\n" when two different fence lines were found, else the text itself
cleanMarpContent(text) ==
    LET lines == Split(text)
        first == firstBacktickLine(lines)
        last == lastBacktickLine(lines)
    IN  IF first # -1 /\ last # -1 /\ last > first
        THEN Join(SubSeq(lines, first + 2, last), <<"\n">>)
        ELSE text

\* no call of cleanMarpContent is being followed
NoText == [pc |-> "none", text |-> <<>>, out |-> <<>>]
\* the texts given to cleanMarpContent: up to MaxLines lines, one kind of line end
Texts ==
    {Join(ls, eol) : ls \in UNION {[1..n -> Lines] : n \in 1..MaxLines}, eol \in Eols}

\* ------------------------------------------------------------------ Init
Init ==
    /\ channels = [id \in JobIds |-> Nil]
    /\ owners = [id \in JobIds |-> NoOwner]
    /\ chans = <<>>
    /\ storage \in BOOLEAN
    /\ runs = [id \in JobIds |-> NoRun]
    /\ subs = [s \in Subs |-> IdleSub]
    /\ recv = [s \in Subs |-> <<>>]
    /\ emitted = [id \in JobIds |-> <<>>]
    /\ calls = [id \in JobIds |-> <<>>]
    /\ records = [id \in JobIds |-> NoRecord]
    /\ ops = [p \in Procs |-> IdleOp]
    /\ mu = Unlocked
    /\ reply = NoReply
    /\ post = NoPost
    /\ marp = NoText

\* --------------------------------------------------------------- service
\* uuid.New(): an id no job has had; ids are opaque, so the lowest unused one
FreshId == IF \A id \in JobIds : runs[id].pc # "none" THEN Nil
           ELSE CHOOSE id \in JobIds :
                   /\ runs[id].pc = "none"
                   /\ \A k \in JobIds : runs[k].pc = "none" => id <= k

\* tasks started so far
Started == Cardinality({id \in JobIds : runs[id].pc # "none"})
           + Cardinality({s \in Subs : subs[s].state # "idle"})

\* user ids are opaque (the sub claim of a token): the first user a behaviour
\* involves is called "alice", any user may follow
Involved(u) == \/ \E id \in JobIds : runs[id].userID = u
               \/ \E s \in Subs : subs[s].userID = u
MayAct(u) == u = "alice" \/ Involved("alice")

\* c.ShouldBindJSON(&data): the error binding the body into model.PitchDeckData
\* returns, "" for nil
BindError(body) ==
    IF ~body.wellFormed THEN "invalid character"
    ELSE IF body.theme \notin availableThemes THEN "Invalid theme selected"
    ELSE ""

\* a Create that returns only once the run it started earlier has returned
Create_WaitsForRun(data, userID) ==
    \E id \in JobIds :
        /\ id = FreshId
        /\ \A k \in JobIds : runs[k].pc \in {"none", "done"}
        /\ Started < MaxTasks
        /\ MayAct(userID)
        /\ CreateChannel(id, userID)
        /\ runs' = [runs EXCEPT ![id] = [NoRun EXCEPT !.pc = "send1", !.userID = userID,
                                                      !.progressChan = Len(chans) + 1]]
        /\ post' = [n |-> post.n + 1, ok |-> post.ok + 1, body |-> data, code |-> 200,
                    error |-> "", deckId |-> id, userID |-> userID,
                    status |-> "processing"]
        /\ UNCHANGED <<storage, subs, recv, emitted, calls, records, ops, mu, reply, marp>>

\* a Create that starts the run with a channel the Tracker has not registered
Create_StartsRunFirst(data, userID) ==
    \E id \in JobIds :
        /\ id = FreshId
        /\ Started < MaxTasks
        /\ MayAct(userID)
        /\ chans' = MakeChan(chans)
        /\ runs' = [runs EXCEPT ![id] = [NoRun EXCEPT !.pc = "send1", !.userID = userID,
                                                      !.progressChan = Len(chans) + 1]]
        /\ post' = [n |-> post.n + 1, ok |-> post.ok + 1, body |-> data, code |-> 200,
                    error |-> "", deckId |-> id, userID |-> userID,
                    status |-> "processing"]
        /\ UNCHANGED <<channels, owners, storage, subs, recv, emitted, calls, records,
                       ops, mu, reply, marp>>

\* handler Create with a body that binds -> PitchDeckService.Create: a fresh id
\* (uuid.New), the channel and owner registered, then `go s.processDeck(...)`;
\* the answer is 200 with the deck id
Create(data, userID) ==
    \E id \in JobIds :
        /\ id = FreshId
        /\ Started < MaxTasks
        /\ MayAct(userID)
        /\ CreateChannel(id, userID)
        /\ runs' = [runs EXCEPT ![id] = [NoRun EXCEPT !.pc = "send1", !.userID = userID,
                                                      !.progressChan = Len(chans) + 1]]
        /\ post' = [n |-> post.n + 1, ok |-> post.ok + 1, body |-> data, code |-> 200,
                    error |-> "", deckId |-> id, userID |-> userID,
                    status |-> "processing"]
        /\ UNCHANGED <<storage, subs, recv, emitted, calls, records, ops, mu, reply, marp>>

\* c.JSON(http.StatusBadRequest, gin.H{"error": err.Error()}); return
BadRequest(body, err) ==
    /\ post' = [n |-> post.n + 1, ok |-> post.ok, body |-> body, code |-> 400,
                error |-> err, deckId |-> Nil, userID |-> NoOwner, status |-> ""]
    /\ UNCHANGED <<channels, owners, chans, storage, runs, subs, recv, emitted, calls,
                   records, ops, mu, reply, marp>>

\* a handler that goes on to the service whatever the binding returned
HandlerCreate_IgnoresBindError(userID, body) ==
    /\ post.n < MaxPosts
    /\ Create(body, userID)

\* PitchDeckHandler.Create for a request that passed JWTAuth (userID is set in
\* the context): 400 when the body does not bind, else the service is called
HandlerCreate(userID, body) ==
    /\ post.n < MaxPosts
    /\ IF BindError(body) # ""
       THEN BadRequest(body, BindError(body))
       ELSE Create(body, userID)

\* a send on a channel made without a buffer: it completes only while a
\* receiver is reading
SendUpdate_Unbuffered(id) ==
    LET r == runs[id]
        ch == SendLookup(id)
        data == Marshal(UpdateAt(r))
    IN  /\ r.pc \in SendPoints
        /\ IF ch = Nil
           THEN /\ runs' = [runs EXCEPT ![id].pc = AfterSend(r.pc)]
                /\ calls' = [calls EXCEPT ![id] = Append(@, "SendUpdate:error")]
                /\ UNCHANGED <<chans, emitted>>
           ELSE IF chans[ch].closed
           THEN /\ runs' = [runs EXCEPT ![id].pc = "panic"]
                /\ UNCHANGED <<chans, emitted, calls>>
           ELSE /\ Len(chans[ch].buf) < ChanCap
                /\ \E s \in Subs : subs[s].state = "streaming" /\ subs[s].ch = ch
                /\ chans' = [chans EXCEPT ![ch].buf = ChanSend(@, data)]
                /\ runs' = [runs EXCEPT ![id].pc = AfterSend(r.pc)]
                /\ emitted' = [emitted EXCEPT ![id] = Append(@, data)]
                /\ calls' = [calls EXCEPT ![id] = Append(@, "SendUpdate")]
        /\ UNCHANGED <<channels, owners, storage, subs, recv, records, ops, mu, reply, post, marp>>

\* Tracker.SendUpdate(id, update) called by the run of job id: the lookup under
\* the read lock, then "no progress channel" error, or marshal and send. A send
\* on a full channel blocks; a send on a closed channel panics. processDeck and
\* handleError ignore the returned error.
SendUpdate(id) ==
    LET r == runs[id]
        ch == SendLookup(id)
        data == Marshal(UpdateAt(r))
    IN  /\ r.pc \in SendPoints
        /\ IF ch = Nil
           THEN /\ runs' = [runs EXCEPT ![id].pc = AfterSend(r.pc)]
                /\ calls' = [calls EXCEPT ![id] = Append(@, "SendUpdate:error")]
                /\ UNCHANGED <<chans, emitted>>
           ELSE IF chans[ch].closed
           THEN /\ runs' = [runs EXCEPT ![id].pc = "panic"]
                /\ UNCHANGED <<chans, emitted, calls>>
           ELSE /\ Len(chans[ch].buf) < ChanCap
                /\ chans' = [chans EXCEPT ![ch].buf = ChanSend(@, data)]
                /\ runs' = [runs EXCEPT ![id].pc = AfterSend(r.pc)]
                /\ emitted' = [emitted EXCEPT ![id] = Append(@, data)]
                /\ calls' = [calls EXCEPT ![id] = Append(@, "SendUpdate")]
        /\ UNCHANGED <<channels, owners, storage, subs, recv, records, ops, mu, reply, post, marp>>

\* a step of processDeck that touches no Tracker state
Local(id, r) ==
    /\ runs' = [runs EXCEPT ![id] = r]
    /\ UNCHANGED <<channels, owners, chans, storage, subs, recv, emitted, calls, records, ops, mu, reply, post, marp>>

\* a step of processDeck that calls the job-record store
LocalStore(id, r, recs) ==
    /\ runs' = [runs EXCEPT ![id] = r]
    /\ records' = recs
    /\ UNCHANGED <<channels, owners, chans, storage, subs, recv, emitted, calls, ops, mu, reply, post, marp>>

\* handleError that persists the status and sends nothing
HandleError_NoEvent(r, message, err) ==
    [r EXCEPT !.pc = "statusFailed", !.failed = r.pc, !.message = message, !.err = err]

\* s.handleError(deckID, message, err) is entered; processDeck returns after it
HandleError(r, message, err) ==
    [r EXCEPT !.pc = "sendF", !.failed = r.pc, !.message = message, !.err = err]

\* processImages never fails
ProcessImages(id) ==
    /\ runs[id].pc = "images"
    /\ Local(id, [runs[id] EXCEPT !.pc = "send2"])

GenerateMarkdown(id) ==
    /\ runs[id].pc = "generate"
    /\ \E e \in ErrValues \cup {"nil"} :
          Local(id, IF e = "nil" THEN [runs[id] EXCEPT !.pc = "save"]
                    ELSE HandleError(runs[id], "Failed to generate content", e))

\* a save after which the conversions start without their update being sent
SaveMarkdown_SkipsAnnouncement(id) ==
    /\ runs[id].pc = "save"
    /\ \E e \in ErrValues \cup {"nil"} :
          Local(id, IF e = "nil" THEN [runs[id] EXCEPT !.pc = "pdf"]
                    ELSE HandleError(runs[id], "Failed to save markdown", e))

\* os.WriteFile(mdPath, ...)
SaveMarkdown(id) ==
    /\ runs[id].pc = "save"
    /\ \E e \in ErrValues \cup {"nil"} :
          Local(id, IF e = "nil" THEN [runs[id] EXCEPT !.pc = "send3"]
                    ELSE HandleError(runs[id], "Failed to save markdown", e))

\* the PDF branch reporting with the HTML branch's message
ConvertToPDF_WrongMessage(id) ==
    /\ runs[id].pc = "pdf"
    /\ \E e \in ErrValues \cup {"nil"} :
          Local(id, IF e = "nil" THEN [runs[id] EXCEPT !.pc = "html"]
                    ELSE HandleError(runs[id], "Failed to convert to HTML", e))

ConvertToPDF(id) ==
    /\ runs[id].pc = "pdf"
    /\ \E e \in ErrValues \cup {"nil"} :
          Local(id, IF e = "nil" THEN [runs[id] EXCEPT !.pc = "html"]
                    ELSE HandleError(runs[id], "Failed to convert to PDF", e))

\* an HTML conversion error answered by rendering the PDF again
ConvertToHTML_RetriesPDF(id) ==
    /\ runs[id].pc = "html"
    /\ \E e \in ErrValues \cup {"nil"} :
          Local(id, IF e = "nil" THEN [runs[id] EXCEPT !.pc = "send4"]
                    ELSE [runs[id] EXCEPT !.pc = "pdf", !.logged = "html"])

ConvertToHTML(id) ==
    /\ runs[id].pc = "html"
    /\ \E e \in ErrValues \cup {"nil"} :
          Local(id, IF e = "nil" THEN [runs[id] EXCEPT !.pc = "send4"]
                    ELSE HandleError(runs[id], "Failed to convert to HTML", e))

\* a PDF upload whose error is logged while the run goes on to the HTML upload
UploadPDF_LogsOnly(id) ==
    /\ runs[id].pc = "uploadPdf"
    /\ IF ~storage
       THEN Local(id, [runs[id] EXCEPT !.pc = "send5"])
       ELSE \E e \in ErrValues \cup {"nil"} :
              Local(id, IF e = "nil"
                        THEN [runs[id] EXCEPT !.pc = "uploadHtml",
                                 !.pdfURL = PublicURL("pitch-decks", <<id, ".pdf">>)]
                        ELSE [runs[id] EXCEPT !.pc = "uploadHtml", !.logged = "uploadPdf"])

\* lines 138-144: without a storage collaborator the uploads and the record
\* save are skipped and both URLs stay ""
UploadPDF(id) ==
    /\ runs[id].pc = "uploadPdf"
    /\ IF ~storage
       THEN Local(id, [runs[id] EXCEPT !.pc = "send5"])
       ELSE \E e \in ErrValues \cup {"nil"} :
              Local(id, IF e = "nil"
                        THEN [runs[id] EXCEPT !.pc = "uploadHtml",
                                 !.pdfURL = PublicURL("pitch-decks", <<id, ".pdf">>)]
                        ELSE HandleError(runs[id], "Failed to upload PDF", e))

\* an upload error that is logged while the run goes on to the record save
UploadHTML_LogsOnly(id) ==
    /\ runs[id].pc = "uploadHtml"
    /\ \E e \in ErrValues \cup {"nil"} :
          Local(id, IF e = "nil"
                    THEN [runs[id] EXCEPT !.pc = "saveRecord",
                             !.htmlURL = PublicURL("pitch-decks", <<id, ".html">>)]
                    ELSE [runs[id] EXCEPT !.pc = "saveRecord", !.logged = "uploadHtml"])

UploadHTML(id) ==
    /\ runs[id].pc = "uploadHtml"
    /\ \E e \in ErrValues \cup {"nil"} :
          Local(id, IF e = "nil"
                    THEN [runs[id] EXCEPT !.pc = "saveRecord",
                             !.htmlURL = PublicURL("pitch-decks", <<id, ".html">>)]
                    ELSE HandleError(runs[id], "Failed to upload HTML", e))

\* lines 153-156: SavePitchDeckRecord; its error is logged and the run goes on
SaveRecord(id) ==
    /\ runs[id].pc = "saveRecord"
    /\ \E e \in ErrValues \cup {"nil"} :
          IF e = "nil"
          THEN LocalStore(id, [runs[id] EXCEPT !.pc = "send5"],
                          InsertRecord(records, id, runs[id].userID,
                                       runs[id].pdfURL, runs[id].htmlURL))
          ELSE LocalStore(id, [runs[id] EXCEPT !.pc = "send5", !.logged = "saveRecord"],
                          records)

\* lines 174-176: s.UpdateStatus(id, "completed"); its error is logged and the
\* run goes on
StatusCompleted(id) ==
    /\ runs[id].pc = "statusCompleted"
    /\ \E e \in ErrValues \cup {"nil"} :
          IF e = "nil"
          THEN LocalStore(id, [runs[id] EXCEPT !.pc = "close"],
                          PatchStatus(records, id, "completed"))
          ELSE LocalStore(id, [runs[id] EXCEPT !.pc = "close",
                                  !.logged = IF @ = "" THEN "statusCompleted" ELSE @],
                          records)

\* handleError's s.UpdateStatus(id, "failed"), its result dropped; then
\* processDeck returns
StatusFailed(id) ==
    /\ runs[id].pc = "statusFailed"
    /\ \E e \in ErrValues \cup {"nil"} :
          LocalStore(id, [runs[id] EXCEPT !.pc = "done"],
                     IF e = "nil" THEN PatchStatus(records, id, "failed") ELSE records)

\* line 184: s.progress.CloseChannel(deckInfo.ID), the last statement
Close(id) ==
    /\ runs[id].pc = "close"
    /\ CloseChannel(id)
    /\ runs' = [runs EXCEPT ![id].pc = "done",
                            ![id].logged = IF @ = "statusCompleted" THEN "" ELSE @]
    /\ calls' = [calls EXCEPT ![id] = Append(@, "CloseChannel")]
    /\ UNCHANGED <<storage, subs, recv, emitted, records, ops, mu, reply, post, marp>>

\* --------------------------------------------------------------- handler
\* validateToken: the user id of a valid credential
ValidToken(token) == token \in Users

\* a handler answering 403 when the deck is registered to someone else
ProgressResponse_Forbidden(id, token) ==
    IF ~ValidToken(token) THEN <<401, "Invalid token">>
    ELSE IF channels[id] # Nil /\ owners[id] # token
    THEN <<403, "You don't have permission to access this deck">>
    ELSE IF ~GetChannel(id, token)[2] THEN <<404, "No progress found for this deck">>
    ELSE <<200, "text/event-stream">>

\* the status and error / content type GetProgress answers with
ProgressResponse(id, token) ==
    IF ~ValidToken(token) THEN <<401, "Invalid token">>
    ELSE IF ~GetChannel(id, token)[2] THEN <<404, "No progress found for this deck">>
    ELSE <<200, "text/event-stream">>

\* GetProgress up to the SSE headers: 401, 404 or the stream starts
GetProgress(s, id, token) ==
    /\ subs[s].state = "idle"
    /\ \A k \in Subs : k < s => subs[k].state # "idle"
    /\ Started < MaxTasks
    /\ ValidToken(token) => MayAct(token)
    /\ subs' = [subs EXCEPT ![s] =
          IF ~ValidToken(token) THEN [IdleSub EXCEPT !.state = "unauthorized"]
          ELSE [state |-> IF GetChannel(id, token)[2] THEN "streaming" ELSE "notfound",
                id |-> id, userID |-> token, ch |-> GetChannel(id, token)[1]]]
    /\ UNCHANGED <<channels, owners, chans, storage, runs, recv, emitted, calls, records, ops, mu, reply, post, marp>>

\* a receive that leaves the event in the channel for the other readers
Relay_Peek(s) ==
    /\ subs[s].state = "streaming"
    /\ chans[subs[s].ch].buf # <<>>
    /\ Len(recv[s]) < ChanCap
    /\ recv' = [recv EXCEPT ![s] = Append(@, Head(chans[subs[s].ch].buf))]
    /\ UNCHANGED <<channels, owners, chans, storage, runs, subs, emitted, calls, records, ops, mu, reply, post, marp>>

\* a relay that writes one event and returns
Relay_Once(s) ==
    /\ subs[s].state = "streaming"
    /\ chans[subs[s].ch].buf # <<>>
    /\ recv' = [recv EXCEPT ![s] = Append(@, Head(chans[subs[s].ch].buf))]
    /\ chans' = [chans EXCEPT ![subs[s].ch].buf = Tail(@)]
    /\ subs' = [subs EXCEPT ![s].state = "ended"]
    /\ UNCHANGED <<channels, owners, storage, runs, emitted, calls, records, ops, mu, reply, post, marp>>

\* one iteration of `for update := range ch`: receive and relay
Relay(s) ==
    /\ subs[s].state = "streaming"
    /\ chans[subs[s].ch].buf # <<>>
    /\ recv' = [recv EXCEPT ![s] = Append(@, Head(chans[subs[s].ch].buf))]
    /\ chans' = [chans EXCEPT ![subs[s].ch].buf = Tail(@)]
    /\ UNCHANGED <<channels, owners, storage, runs, subs, emitted, calls, records, ops, mu, reply, post, marp>>

\* a loop that ends as soon as the channel is closed, whatever is buffered
RelayEnd_IgnoresBuffer(s) ==
    /\ subs[s].state = "streaming"
    /\ chans[subs[s].ch].closed
    /\ subs' = [subs EXCEPT ![s].state = "ended"]
    /\ UNCHANGED <<channels, owners, chans, storage, runs, recv, emitted, calls, records, ops, mu, reply, post, marp>>

\* the range loop ends: the channel is closed and drained
RelayEnd(s) ==
    /\ subs[s].state = "streaming"
    /\ chans[subs[s].ch].buf = <<>>
    /\ chans[subs[s].ch].closed
    /\ subs' = [subs EXCEPT ![s].state = "ended"]
    /\ UNCHANGED <<channels, owners, chans, storage, runs, recv, emitted, calls, records, ops, mu, reply, post, marp>>

\* ------------------------------------------------------------------ Next
Next ==
    \/ \E u \in Users, data \in Bodies : BindError(data) = "" /\ Create(data, u)
    \/ \E id \in JobIds : SendUpdate(id)
    \/ \E id \in JobIds : ProcessImages(id)
    \/ \E id \in JobIds : GenerateMarkdown(id)
    \/ \E id \in JobIds : SaveMarkdown(id)
    \/ \E id \in JobIds : ConvertToPDF(id)
    \/ \E id \in JobIds : ConvertToHTML(id)
    \/ \E id \in JobIds : UploadPDF(id)
    \/ \E id \in JobIds : UploadHTML(id)
    \/ \E id \in JobIds : SaveRecord(id)
    \/ \E id \in JobIds : StatusCompleted(id)
    \/ \E id \in JobIds : StatusFailed(id)
    \/ \E id \in JobIds : Close(id)
    \/ \E s \in Subs, id \in JobIds, t \in Tokens : GetProgress(s, id, t)
    \/ \E s \in Subs : Relay(s)
    \/ \E s \in Subs : RelayEnd(s)

Spec == Init /\ [][Next]_vars

\* one step of the processDeck task of job id
RunStep(id) ==
    \/ SendUpdate(id) \/ ProcessImages(id) \/ GenerateMarkdown(id)
    \/ SaveMarkdown(id) \/ ConvertToPDF(id) \/ ConvertToHTML(id)
    \/ UploadPDF(id) \/ UploadHTML(id) \/ SaveRecord(id)
    \/ StatusCompleted(id) \/ StatusFailed(id) \/ Close(id)

\* The Go scheduler runs every runnable goroutine, and every collaborator call
\* returns: a run that can step does, a relay that can receive or end does.
FairSpec ==
    /\ Spec
    /\ \A id \in JobIds : WF_vars(RunStep(id))
    /\ \A s \in Subs : WF_vars(Relay(s)) /\ WF_vars(RelayEnd(s))

\* ------------------------------------------------- Create requests, any body
\* POST /api/pitch-decks with any body while the runs of accepted jobs go on
CreateNext ==
    \/ \E u \in Users, body \in Bodies : HandlerCreate(u, body)
    \/ \E id \in JobIds : RunStep(id)

CreateSpec == Init /\ [][CreateNext]_vars

\* ------------------------------------------ Tracker calls, statement by statement
\* Any goroutine may call any Tracker method with any id; each method is a
\* sequence of steps, and t.mu decides which of them can interleave.

\* t.mu.Lock() can return: nobody holds the lock
CanLock == mu.w = Nil /\ mu.r = {}
\* an RLock that a writer does not keep out
CanRLock_IgnoresWriter == TRUE
\* t.mu.RLock() can return: no writer holds the lock
CanRLock == mu.w = Nil

\* what SendUpdate is given by the goroutines that call the Tracker directly
DirectUpdate == ProcessingUpdate(1, "Processing images...")

TrackerFrame == UNCHANGED <<storage, runs, subs, recv, emitted, calls, records, reply, post, marp>>

\* a goroutine enters a Tracker method
TCall(p, op, id, userID) ==
    /\ ops[p].pc = "idle"
    /\ (op \in {"CreateChannel", "GetChannel"}) <=> (userID \in Users)
    /\ ops' = [ops EXCEPT ![p] = [IdleOp EXCEPT !.op = op, !.pc = "lock",
                                                 !.id = id, !.userID = userID]]
    /\ UNCHANGED <<channels, owners, chans, mu>>
    /\ TrackerFrame

\* t.mu.Lock() of CreateChannel (line 26) and CloseChannel (line 58)
TLock(p) ==
    /\ ops[p].pc = "lock" /\ ops[p].op \in {"CreateChannel", "CloseChannel"}
    /\ CanLock
    /\ mu' = [mu EXCEPT !.w = p]
    /\ ops' = [ops EXCEPT ![p].pc = "locked"]
    /\ UNCHANGED <<channels, owners, chans>>
    /\ TrackerFrame

\* t.mu.RLock() of GetChannel (line 37) and SendUpdate (line 77)
TRLock(p) ==
    /\ ops[p].pc = "lock" /\ ops[p].op \in {"GetChannel", "SendUpdate"}
    /\ CanRLock
    /\ mu' = [mu EXCEPT !.r = @ \cup {p}]
    /\ ops' = [ops EXCEPT ![p].pc = "locked"]
    /\ UNCHANGED <<channels, owners, chans>>
    /\ TrackerFrame

\* CreateChannel lines 30-31: ch := make(chan string, 10); t.channels[id] = ch
TCreateSetChannel(p) ==
    /\ ops[p].pc = "locked" /\ ops[p].op = "CreateChannel"
    /\ chans' = MakeChan(chans)
    /\ channels' = [channels EXCEPT ![ops[p].id] = Len(chans) + 1]
    /\ ops' = [ops EXCEPT ![p].pc = "setOwner", ![p].ch = Len(chans) + 1]
    /\ UNCHANGED <<owners, mu>>
    /\ TrackerFrame

\* CreateChannel line 32: t.owners[id] = userID
TCreateSetOwner(p) ==
    /\ ops[p].pc = "setOwner"
    /\ owners' = [owners EXCEPT ![ops[p].id] = ops[p].userID]
    /\ ops' = [ops EXCEPT ![p].pc = "unlock"]
    /\ UNCHANGED <<channels, chans, mu>>
    /\ TrackerFrame

\* CloseChannel lines 61-62: if the id has a channel, close(ch)
TCloseClose(p) ==
    /\ ops[p].pc = "locked" /\ ops[p].op = "CloseChannel"
    /\ IF channels[ops[p].id] # Nil
       THEN /\ chans' = [chans EXCEPT ![channels[ops[p].id]].closed = TRUE]
            /\ ops' = [ops EXCEPT ![p].pc = "deleteChannel", ![p].ch = channels[ops[p].id]]
       ELSE /\ ops' = [ops EXCEPT ![p].pc = "unlock"]
            /\ UNCHANGED chans
    /\ UNCHANGED <<channels, owners, mu>>
    /\ TrackerFrame

\* a CloseChannel that closes the channel and leaves it in t.channels
TCloseDeleteChannel_KeepsEntry(p) ==
    /\ ops[p].pc = "deleteChannel"
    /\ ops' = [ops EXCEPT ![p].pc = "deleteOwner"]
    /\ UNCHANGED <<channels, owners, chans, mu>>
    /\ TrackerFrame

\* CloseChannel line 63: delete(t.channels, id)
TCloseDeleteChannel(p) ==
    /\ ops[p].pc = "deleteChannel"
    /\ channels' = [channels EXCEPT ![ops[p].id] = Nil]
    /\ ops' = [ops EXCEPT ![p].pc = "deleteOwner"]
    /\ UNCHANGED <<owners, chans, mu>>
    /\ TrackerFrame

\* CloseChannel line 64: delete(t.owners, id)
TCloseDeleteOwner(p) ==
    /\ ops[p].pc = "deleteOwner"
    /\ owners' = [owners EXCEPT ![ops[p].id] = NoOwner]
    /\ ops' = [ops EXCEPT ![p].pc = "unlock"]
    /\ UNCHANGED <<channels, chans, mu>>
    /\ TrackerFrame

\* the deferred t.mu.Unlock() of CreateChannel and CloseChannel; the call returns
TUnlock(p) ==
    /\ ops[p].pc = "unlock"
    /\ mu' = [mu EXCEPT !.w = Nil]
    /\ ops' = [ops EXCEPT ![p].pc = "returned", ![p].ret = "ok"]
    /\ UNCHANGED <<channels, owners, chans>>
    /\ TrackerFrame

\* GetChannel lines 41-53 and the deferred RUnlock: the call returns (ch, found)
TGetRead(p) ==
    /\ ops[p].pc = "locked" /\ ops[p].op = "GetChannel"
    /\ mu' = [mu EXCEPT !.r = @ \ {p}]
    /\ ops' = [ops EXCEPT ![p].pc = "returned",
                          ![p].ch = GetChannel(ops[p].id, ops[p].userID)[1],
                          ![p].ret = IF GetChannel(ops[p].id, ops[p].userID)[2]
                                     THEN "found" ELSE "not found"]
    /\ UNCHANGED <<channels, owners, chans>>
    /\ TrackerFrame

\* a SendUpdate that releases the read lock with `defer`, after the send
TSendRead_KeepsRLock(p) ==
    /\ ops[p].pc = "locked" /\ ops[p].op = "SendUpdate"
    /\ mu' = [mu EXCEPT !.r = IF SendLookup(ops[p].id) = Nil THEN @ \ {p} ELSE @]
    /\ ops' = [ops EXCEPT ![p].ch = SendLookup(ops[p].id),
                          ![p].pc = IF SendLookup(ops[p].id) = Nil THEN "returned" ELSE "send",
                          ![p].ret = IF SendLookup(ops[p].id) = Nil
                                     THEN "no progress channel found" ELSE ""]
    /\ UNCHANGED <<channels, owners, chans>>
    /\ TrackerFrame

\* SendUpdate lines 78-83: the lookup, RUnlock, and the error return if the id
\* has no channel
TSendRead(p) ==
    /\ ops[p].pc = "locked" /\ ops[p].op = "SendUpdate"
    /\ mu' = [mu EXCEPT !.r = @ \ {p}]
    /\ ops' = [ops EXCEPT ![p].ch = SendLookup(ops[p].id),
                          ![p].pc = IF SendLookup(ops[p].id) = Nil THEN "returned" ELSE "send",
                          ![p].ret = IF SendLookup(ops[p].id) = Nil
                                     THEN "no progress channel found" ELSE ""]
    /\ UNCHANGED <<channels, owners, chans>>
    /\ TrackerFrame

\* SendUpdate lines 85-91: ch <- string(data), with no lock held. The send
\* panics if the channel has been closed since the lookup, blocks while the
\* buffer is full, and otherwise enqueues and the call returns nil.
TSendPush(p) ==
    /\ ops[p].pc = "send"
    /\ IF chans[ops[p].ch].closed
       THEN /\ ops' = [ops EXCEPT ![p].pc = "panic"]
            /\ UNCHANGED chans
       ELSE /\ Len(chans[ops[p].ch].buf) < ChanCap
            /\ chans' = [chans EXCEPT ![ops[p].ch].buf = ChanSend(@, Marshal(DirectUpdate))]
            /\ ops' = [ops EXCEPT ![p].pc = "returned", ![p].ret = "nil"]
    /\ UNCHANGED <<channels, owners, mu>>
    /\ TrackerFrame

TrackerNext ==
    \/ \E p \in Procs, op \in TrackerOps, id \in JobIds, u \in Users \cup {NoOwner} :
          TCall(p, op, id, u)
    \/ \E p \in Procs : TLock(p)
    \/ \E p \in Procs : TRLock(p)
    \/ \E p \in Procs : TCreateSetChannel(p)
    \/ \E p \in Procs : TCreateSetOwner(p)
    \/ \E p \in Procs : TCloseClose(p)
    \/ \E p \in Procs : TCloseDeleteChannel(p)
    \/ \E p \in Procs : TCloseDeleteOwner(p)
    \/ \E p \in Procs : TUnlock(p)
    \/ \E p \in Procs : TGetRead(p)
    \/ \E p \in Procs : TSendRead(p)
    \/ \E p \in Procs : TSendPush(p)

TrackerSpec == Init /\ [][TrackerNext]_vars

\* ----------------------------------------------- job-record store, called directly
StoreFrame == UNCHANGED <<channels, owners, chans, storage, runs, subs, recv, emitted,
                          calls, ops, mu, post, marp>>

\* SavePitchDeckRecord(deckInfo, pdfURL, htmlURL) for a deck that has no row:
\* the POST inserts the row, or fails and returns an error
SavePitchDeckRecord(deckID, userID) ==
    /\ ~records[deckID].exists
    /\ \E e \in ErrValues \cup {"nil"} :
          records' = IF e = "nil"
                     THEN InsertRecord(records, deckID, userID,
                                       PublicURL("pitch-decks", <<deckID, ".pdf">>),
                                       PublicURL("pitch-decks", <<deckID, ".html">>))
                     ELSE records
    /\ UNCHANGED reply
    /\ StoreFrame

\* UpdateStatus(deckID, status)
UpdateStatus(deckID, status) ==
    /\ \E e \in ErrValues \cup {"nil"} :
          records' = IF e = "nil" THEN PatchStatus(records, deckID, status) ELSE records
    /\ UNCHANGED reply
    /\ StoreFrame

\* UpdateVisibility that patches the flag for any caller
UpdateVisibility_NoOwnerCheck(deckID, userID, isPublic) ==
    LET deck == Get(deckID)
        call == [NoReply EXCEPT !.deckID = deckID, !.userID = userID, !.isPublic = isPublic]
    IN  /\ IF ~deck.exists
           THEN /\ reply' = [call EXCEPT !.err = "deck not found"]
                /\ UNCHANGED records
           ELSE \E e \in ErrValues \cup {"nil"} :
                  /\ records' = IF e = "nil" THEN PatchVisibility(records, deckID, isPublic)
                                ELSE records
                  /\ reply' = [call EXCEPT
                                  !.err = IF e = "nil" THEN "" ELSE "failed to update visibility",
                                  !.owner = deck.userID, !.before = deck.isPublic,
                                  !.after = records'[deckID].isPublic]
        /\ StoreFrame

\* UpdateVisibility(deckID, userID, isPublic): Get, the owner comparison, then
\* the PATCH of is_public
UpdateVisibility(deckID, userID, isPublic) ==
    LET deck == Get(deckID)
        call == [NoReply EXCEPT !.deckID = deckID, !.userID = userID, !.isPublic = isPublic]
    IN  /\ IF ~deck.exists
           THEN /\ reply' = [call EXCEPT !.err = "deck not found"]
                /\ UNCHANGED records
           ELSE IF deck.userID # userID
           THEN /\ reply' = [call EXCEPT !.err = "unauthorized", !.owner = deck.userID,
                                         !.before = deck.isPublic, !.after = deck.isPublic]
                /\ UNCHANGED records
           ELSE \E e \in ErrValues \cup {"nil"} :
                  /\ records' = IF e = "nil" THEN PatchVisibility(records, deckID, isPublic)
                                ELSE records
                  /\ reply' = [call EXCEPT
                                  !.err = IF e = "nil" THEN "" ELSE "failed to update visibility",
                                  !.owner = deck.userID, !.before = deck.isPublic,
                                  !.after = records'[deckID].isPublic]
        /\ StoreFrame

StoreNext ==
    \/ \E id \in JobIds, u \in Users : SavePitchDeckRecord(id, u)
    \/ \E id \in JobIds, st \in {"completed", "failed"} : UpdateStatus(id, st)
    \/ \E id \in JobIds, u \in Users, f \in BOOLEAN : UpdateVisibility(id, u, f)

StoreSpec == Init /\ [][StoreNext]_vars

\* ------------------------------------------------------ monolith (src/main.go)
\* generatePitchDeck / processPitchDeck and the route GET /api/progress/:deckId
\* keep progressChannels and progressOwners in `channels` and `owners`; a run's
\* positions are the numbered stages of processPitchDeck.

\* var userID string: the progress route's caller when no credential resolves
Anonymous == ""

\* the identity the progress route resolves from the Authorization header
ResolveUser(token) == IF ValidToken(token) THEN token ELSE Anonymous

\* uploadToSupabase on success / the local URLs used instead
MonoPublicURL(bucketName, fileName) ==
    <<"SUPABASE_URL", "/storage/v1/object/public/", bucketName, "/">> \o fileName
LocalPdfURL(deckID) == <<"/download/", deckID, ".pdf">>
LocalHtmlURL(deckID) == <<"/view/", deckID>>

\* the Go runtime found a map read concurrent with a map write ("fatal error:
\* concurrent map read and map write") and ended the process
Crashed == \E s \in Subs : subs[s].state = "fatal"

MonoFrame == ~Crashed /\ UNCHANGED <<storage, recv, calls, ops, mu, reply, post, marp>>

\* generatePitchDeck: uuid.New, both map entries written under progressMu.Lock,
\* then `go processPitchDeck(...)`
GeneratePitchDeck(userID) ==
    \E id \in JobIds :
        /\ id = FreshId
        /\ Started < MaxTasks
        /\ MayAct(userID)
        /\ CanLock
        /\ CreateChannel(id, userID)
        /\ runs' = [runs EXCEPT ![id] = [NoRun EXCEPT !.pc = "stage0", !.userID = userID]]
        /\ UNCHANGED <<subs, emitted, records>>
        /\ MonoFrame

\* sendProgressUpdate(progressChan, update): marshal and send; blocks while the
\* buffer is full
MonoSend(id, ch, update) ==
    /\ Len(chans[ch].buf) < ChanCap
    /\ chans' = [chans EXCEPT ![ch].buf = ChanSend(@, Marshal(update))]
    /\ emitted' = [emitted EXCEPT ![id] = Append(@, Marshal(update))]

\* lines 657-673: the run reads its channel from progressChannels under RLock
\* (returns if it is absent) and sends stage 0
Stage0(id) ==
    /\ runs[id].pc = "stage0"
    /\ CanRLock
    /\ IF channels[id] = Nil
       THEN /\ runs' = [runs EXCEPT ![id].pc = "done"]
            /\ UNCHANGED <<chans, emitted>>
       ELSE /\ MonoSend(id, channels[id], ProcessingUpdate(0, "Initializing generation..."))
            /\ runs' = [runs EXCEPT ![id].pc = "stage1", ![id].progressChan = channels[id]]
    /\ UNCHANGED <<channels, owners, subs, records>>
    /\ MonoFrame

\* a stage that sends its processing update and whose action either succeeds
\* or, if `hard`, ends the run with a failed update (lines 853-859, 871-877,
\* 901-907)
Stage(id, pc, step, message, next, hard, failMessage) ==
    /\ runs[id].pc = pc
    /\ MonoSend(id, runs[id].progressChan, ProcessingUpdate(step, message))
    /\ \E e \in ErrValues \cup {"nil"} :
          runs' = [runs EXCEPT ![id] =
                     IF e = "nil" THEN [@ EXCEPT !.pc = next]
                     ELSE IF hard
                     THEN [@ EXCEPT !.pc = "fail", !.failed = pc, !.message = failMessage,
                                    !.err = e]
                     ELSE [@ EXCEPT !.pc = next, !.logged = pc]]
    /\ UNCHANGED <<channels, owners, subs, records>>
    /\ MonoFrame

\* lines 680-757: images are copied or downloaded; a failure only drops the image
Stage1(id) ==
    /\ runs[id].pc = "stage1"
    /\ MonoSend(id, runs[id].progressChan, ProcessingUpdate(1, "Processing images..."))
    /\ runs' = [runs EXCEPT ![id].pc = "stage2"]
    /\ UNCHANGED <<channels, owners, subs, records>>
    /\ MonoFrame

\* lines 757-860: generateMarpMarkdown
Stage2(id) == Stage(id, "stage2", 2, "Processing content...", "stage3",
                    TRUE, "Error generating content")
\* lines 862-878: os.WriteFile
Stage3(id) == Stage(id, "stage3", 3, "Creating slides...", "stage4",
                    TRUE, "Error saving slides")
\* lines 880-908: marp --pdf
Stage4(id) == Stage(id, "stage4", 4, "Converting to PDF...", "stage5",
                    TRUE, "Error converting to PDF")
\* lines 910-930: marp --html; its error is logged and the run goes on
Stage5(id) == Stage(id, "stage5", 5, "Converting to HTML...", "stage6",
                    FALSE, "")

\* lines 932-979: the uploads and the record save; an upload that fails leaves
\* the local URL, a failed save is logged (its URL fallbacks change nothing
\* once both URLs are set)
Stage6(id) ==
    /\ runs[id].pc = "stage6"
    /\ MonoSend(id, runs[id].progressChan,
                ProcessingUpdate(6, "Uploading files to cloud storage..."))
    /\ IF ~storage
       THEN /\ runs' = [runs EXCEPT ![id].pc = "stage7",
                                    ![id].pdfURL = LocalPdfURL(id),
                                    ![id].htmlURL = LocalHtmlURL(id)]
            /\ UNCHANGED records
       ELSE \E ePdf, eHtml, eSave \in ErrValues \cup {"nil"} :
              LET pdfURL == IF ePdf = "nil"
                            THEN MonoPublicURL("pitch-decks", <<id, ".pdf">>)
                            ELSE LocalPdfURL(id)
                  htmlURL == IF eHtml = "nil"
                             THEN MonoPublicURL("pitch-decks", <<id, ".html">>)
                             ELSE LocalHtmlURL(id)
              IN  /\ runs' = [runs EXCEPT ![id].pc = "stage7",
                                          ![id].pdfURL = pdfURL, ![id].htmlURL = htmlURL]
                  /\ records' = IF eSave = "nil"
                                THEN InsertRecord(records, id, runs[id].userID, pdfURL, htmlURL)
                                ELSE records
    /\ UNCHANGED <<channels, owners, subs>>
    /\ MonoFrame

\* lines 981-995: the completed update, then updatePitchDeckStatus (its error
\* is logged)
Stage7(id) ==
    /\ runs[id].pc = "stage7"
    /\ MonoSend(id, runs[id].progressChan,
                ProgressUpdate("completed", 7, <<"Finalizing deck...">>,
                               runs[id].pdfURL, runs[id].htmlURL))
    /\ runs' = [runs EXCEPT ![id].pc = "close"]
    /\ \E e \in ErrValues \cup {"nil"} :
          records' = IF e = "nil" THEN PatchStatus(records, id, "completed") ELSE records
    /\ UNCHANGED <<channels, owners, subs>>
    /\ MonoFrame

\* a failure path: the failed update, close(progressChan), return
StageFail(id) ==
    /\ runs[id].pc = "fail"
    /\ Len(chans[runs[id].progressChan].buf) < ChanCap
    /\ LET step == CASE runs[id].failed = "stage2" -> 2
                     [] runs[id].failed = "stage3" -> 3
                     [] runs[id].failed = "stage4" -> 4
           data == Marshal(ProgressUpdate("failed", step, <<runs[id].message>>,
                                          EmptyStr, EmptyStr))
       IN  /\ chans' = [chans EXCEPT ![runs[id].progressChan].buf = ChanSend(@, data),
                                     ![runs[id].progressChan].closed = TRUE]
           /\ emitted' = [emitted EXCEPT ![id] = Append(@, data)]
    /\ runs' = [runs EXCEPT ![id].pc = "done"]
    /\ UNCHANGED <<channels, owners, subs, records>>
    /\ MonoFrame

\* line 998: close(progressChan)
StageClose(id) ==
    /\ runs[id].pc = "close"
    /\ chans' = [chans EXCEPT ![runs[id].progressChan].closed = TRUE]
    /\ runs' = [runs EXCEPT ![id].pc = "delete"]
    /\ UNCHANGED <<channels, owners, subs, emitted, records>>
    /\ MonoFrame

\* lines 1001-1002: progressMu.Lock(); delete(progressChannels, deckID)
StageDelete(id) ==
    /\ runs[id].pc = "delete"
    /\ ~Crashed
    /\ CanLock
    /\ mu' = [mu EXCEPT !.w = id]
    /\ channels' = [channels EXCEPT ![id] = Nil]
    /\ runs' = [runs EXCEPT ![id].pc = "deleteOwner"]
    /\ UNCHANGED <<owners, chans, subs, emitted, records>>
    /\ UNCHANGED <<storage, recv, calls, ops, reply, post, marp>>

\* lines 1003-1004: delete(progressOwners, deckID); progressMu.Unlock()
StageDeleteOwner(id) ==
    /\ runs[id].pc = "deleteOwner"
    /\ ~Crashed
    /\ mu' = [mu EXCEPT !.w = Nil]
    /\ owners' = [owners EXCEPT ![id] = NoOwner]
    /\ runs' = [runs EXCEPT ![id].pc = "done"]
    /\ UNCHANGED <<channels, chans, subs, emitted, records>>
    /\ UNCHANGED <<storage, recv, calls, ops, reply, post, marp>>

\* the progress route, lines 265-300 and 327-346: the caller's identity is
\* resolved (Anonymous without a valid credential) and progressChannels is read
\* under RLock; without a channel the route answers from the deck's record
ProgressRoute(s, id, token) ==
    /\ subs[s].state = "idle"
    /\ \A k \in Subs : k < s => subs[k].state # "idle"
    /\ Started < MaxTasks
    /\ ValidToken(token) => MayAct(token)
    /\ CanRLock
    /\ subs' = [subs EXCEPT ![s] =
          [state |-> IF channels[id] # Nil THEN "check"
                     ELSE IF ~records[id].exists THEN "invalid"
                     ELSE IF ~records[id].isPublic /\ records[id].userID # ResolveUser(token)
                     THEN "forbidden"
                     ELSE "completed",
           id |-> id, userID |-> ResolveUser(token), ch |-> channels[id]]]
    /\ UNCHANGED <<channels, owners, chans, runs, emitted, records>>
    /\ MonoFrame

\* a run is inside the critical section of lines 1001-1004, writing the maps
Deleting(id) == mu.w = id /\ runs[id].pc = "deleteOwner"

\* what the read of progressOwners[deckID] at line 305 can return: the entry,
\* or, when it races with the delete of the same entry, also its absence
OwnersRead(id) ==
    {owners[id]} \cup (IF Deleting(id) THEN {NoOwner} ELSE {})

\* lines 305-314: progressOwners is read (no lock held) and the caller is
\* refused with 403 or the stream starts; a read made while a run is writing
\* the maps is a data race, which the runtime may also end with a fatal error
ProgressRouteCheck(s) ==
    /\ subs[s].state = "check"
    /\ \/ \E deckOwnerID \in OwnersRead(subs[s].id) :
             subs' = [subs EXCEPT ![s] =
                IF deckOwnerID = NoOwner
                   \/ (subs[s].userID # Anonymous /\ deckOwnerID # subs[s].userID)
                THEN [@ EXCEPT !.state = "forbidden", !.ch = Nil]
                ELSE [@ EXCEPT !.state = "streaming"]]
       \/ /\ \E id \in JobIds : Deleting(id)
          /\ subs' = [subs EXCEPT ![s] = [@ EXCEPT !.state = "fatal", !.ch = Nil]]
    /\ UNCHANGED <<channels, owners, chans, runs, emitted, records>>
    /\ MonoFrame

MonoNext ==
    \/ \E u \in Users : GeneratePitchDeck(u)
    \/ \E id \in JobIds : Stage0(id)
    \/ \E id \in JobIds : Stage1(id)
    \/ \E id \in JobIds : Stage2(id)
    \/ \E id \in JobIds : Stage3(id)
    \/ \E id \in JobIds : Stage4(id)
    \/ \E id \in JobIds : Stage5(id)
    \/ \E id \in JobIds : Stage6(id)
    \/ \E id \in JobIds : Stage7(id)
    \/ \E id \in JobIds : StageFail(id)
    \/ \E id \in JobIds : StageClose(id)
    \/ \E id \in JobIds : StageDelete(id)
    \/ \E id \in JobIds : StageDeleteOwner(id)
    \/ \E s \in Subs, id \in JobIds, t \in Tokens : ProgressRoute(s, id, t)
    \/ \E s \in Subs : ProgressRouteCheck(s)
    \/ \E s \in Subs : ~Crashed /\ Relay(s)
    \/ \E s \in Subs : ~Crashed /\ RelayEnd(s)

MonoSpec == Init /\ [][MonoNext]_vars

\* ------------------------------------------- cleanMarpContent on its own
\* generateMarkdown hands the collaborator's text to cleanMarpContent
CleanInit ==
    /\ channels = [id \in JobIds |-> Nil]
    /\ owners = [id \in JobIds |-> NoOwner]
    /\ chans = <<>>
    /\ storage = FALSE
    /\ runs = [id \in JobIds |-> NoRun]
    /\ subs = [s \in Subs |-> IdleSub]
    /\ recv = [s \in Subs |-> <<>>]
    /\ emitted = [id \in JobIds |-> <<>>]
    /\ calls = [id \in JobIds |-> <<>>]
    /\ records = [id \in JobIds |-> NoRecord]
    /\ ops = [p \in Procs |-> IdleOp]
    /\ mu = Unlocked
    /\ reply = NoReply
    /\ post = NoPost
    /\ \E text \in Texts : marp = [pc |-> "called", text |-> text, out |-> <<>>]

CleanMarpContent ==
    /\ marp.pc = "called"
    /\ marp' = [marp EXCEPT !.pc = "returned", !.out = cleanMarpContent(marp.text)]
    /\ UNCHANGED <<channels, owners, chans, storage, runs, subs, recv, emitted, calls,
                   records, ops, mu, reply, post>>

CleanNext == CleanMarpContent

CleanSpec == CleanInit /\ [][CleanNext]_vars

\* ---------------------------------------------------------------- claims
Range(q) == {q[i] : i \in 1..Len(q)}
Last(q) == q[Len(q)]

\* CreateChannel(id, owner) has returned and the run has not called CloseChannel(id)
InFlight(id) == runs[id].pc # "none" /\ "CloseChannel" \notin Range(calls[id])
\* CloseChannel(id) has returned
WasClosed(id) == "CloseChannel" \in Range(calls[id])

TerminalCount(es) == Cardinality({i \in 1..Len(es) : Terminal(es[i])})
\* status and step index of each event
EventKinds(es) ==
    [i \in 1..Len(es) |-> <<Field(es[i], "status"), Field(es[i], "currentStep")>>]

\* the run has returned / has returned with every step succeeded
Returned(id) == runs[id].pc = "done"
Succeeded(id) == Returned(id) /\ runs[id].failed = ""

\* C1: between CreateChannel(id, owner) and CloseChannel(id), GetChannel(id, owner)
\* returns the job's channel with found = TRUE and GetChannel(id, other) returns
\* no channel and found = FALSE for every other identity; a GetProgress request
\* streams only from the channel of a job its caller owns.
C1_OwnerOnly ==
    /\ \A id \in JobIds : InFlight(id) =>
         \A u \in Users :
            GetChannel(id, u) = IF u = runs[id].userID
                                THEN <<runs[id].progressChan, TRUE>>
                                ELSE <<Nil, FALSE>>
    /\ \A s \in Subs : subs[s].state = "streaming" =>
         /\ subs[s].userID = runs[subs[s].id].userID
         /\ subs[s].ch = runs[subs[s].id].progressChan

\* the owner streams from an in-flight job and a later request for the same
\* job by another user was answered not-found (requests are made in the order
\* of Subs)
C1_Witness ==
    \E id \in JobIds, s1, s2 \in Subs :
        /\ InFlight(id) /\ s1 < s2
        /\ subs[s1].state = "streaming" /\ subs[s1].id = id
        /\ subs[s2].state = "notfound" /\ subs[s2].id = id
        /\ subs[s2].userID # runs[id].userID

\* C2: once CloseChannel(id) has returned, GetChannel(id, caller) reports
\* not-found for every caller, the recorded owner included.
C2_NotFoundAfterClose ==
    \A id \in JobIds : WasClosed(id) =>
        \A u \in Users : GetChannel(id, u) = <<Nil, FALSE>>

\* the owner's first request obtained the job's channel; the owner's later
\* request for the same job, made after CloseChannel, was answered not-found
C2_Witness ==
    \E id \in JobIds, s1, s2 \in Subs :
        /\ WasClosed(id) /\ s1 < s2
        /\ subs[s1].state \in {"streaming", "ended"} /\ subs[s1].id = id
        /\ subs[s2].state = "notfound" /\ subs[s2].id = id
        /\ subs[s2].userID = runs[id].userID

\* C3: with a single subscriber on a job's channel, what the subscriber has
\* received followed by what is still buffered is exactly what the producer
\* sent, in the order sent: nothing dropped, duplicated or reordered.
C3_FIFO ==
    \A id \in JobIds : runs[id].pc # "none" =>
        LET readers == {s \in Subs : subs[s].ch = runs[id].progressChan}
            got == IF readers = {} THEN <<>> ELSE recv[CHOOSE s \in readers : TRUE]
        IN  Cardinality(readers) <= 1 =>
                got \o chans[runs[id].progressChan].buf = emitted[id]

\* a single subscriber has received two events and more are buffered behind them
C3_Witness ==
    \E id \in JobIds, s \in Subs :
        /\ {k \in Subs : subs[k].ch = runs[id].progressChan} = {s}
        /\ Len(recv[s]) >= 2
        /\ Len(chans[runs[id].progressChan].buf) >= 2

\* C4: a run emits at most one event with status completed or failed, nothing
\* after it, and a run that has returned has emitted exactly one.
C4_OneTerminalEvent ==
    \A id \in JobIds :
        /\ TerminalCount(emitted[id]) <= 1
        /\ \A i \in 1..Len(emitted[id]) :
               Terminal(emitted[id][i]) => i = Len(emitted[id])
        /\ Returned(id) => TerminalCount(emitted[id]) = 1

\* one run has returned after completed and another after failed
C4_Witness ==
    \E a, b \in JobIds :
        /\ Returned(a) /\ Field(Last(emitted[a]), "status") = "completed"
        /\ Returned(b) /\ Field(Last(emitted[b]), "status") = "failed"

\* C5: once the terminal event of a job has been sent and the run has ended,
\* a later SendUpdate for the job finds no registry entry and returns an error
\* (stated as the claim has it: on the success path and on every failure path).
C5_NoSendAfterTerminal ==
    \A id \in JobIds :
        (Returned(id) /\ TerminalCount(emitted[id]) = 1) => SendLookup(id) = Nil

\* C6: a run that has returned has called CloseChannel exactly once, as its
\* last Tracker call (stated as the claim has it: success and every failure).
C6_ClosedExactlyOnce ==
    \A id \in JobIds : Returned(id) =>
        /\ calls[id] # <<>>
        /\ Last(calls[id]) = "CloseChannel"
        /\ Cardinality({i \in 1..Len(calls[id]) : calls[id][i] = "CloseChannel"}) = 1

\* C7: every GetProgress relay that obtained a channel eventually ends (stated
\* as the claim has it: for successful and for failed jobs).
C7_RelayTerminates ==
    \A s \in Subs : (subs[s].state = "streaming") ~> (subs[s].state = "ended")

C9_CompletedHasReferences ==
    \A id \in JobIds : \A i \in 1..Len(emitted[id]) :
        Field(emitted[id][i], "status") = "completed" =>
            /\ StrField(emitted[id][i], "downloadUrl") # EmptyStr
            /\ StrField(emitted[id][i], "viewUrl") # EmptyStr

\* C10: when convertToPDF fails, the events are the processing events up to the
\* conversion step (1, 2, 3), then exactly one failed event whose message names
\* the PDF conversion, and nothing after it.
C10_PdfFailure ==
    \A id \in JobIds :
        (runs[id].failed = "pdf" /\ runs[id].pc \in {"statusFailed", "done"}) =>
            /\ EventKinds(emitted[id]) =
                  << <<"processing", 1>>, <<"processing", 2>>,
                     <<"processing", 3>>, <<"failed", 0>> >>
            /\ Field(Last(emitted[id]), "message")
                  = Sprintf("Failed to convert to PDF", runs[id].err)

\* a run has returned after convertToPDF failed
C10_Witness ==
    \E id \in JobIds :
        /\ Returned(id) /\ runs[id].failed = "pdf"
        /\ Len(emitted[id]) = 4

\* the GetProgress requests that obtained channel ch, and how many events they
\* have relayed in all
Readers(ch) == {s \in Subs : subs[s].ch = ch}
RECURSIVE Relayed(_)
Relayed(S) == IF S = {} THEN 0
              ELSE LET s == CHOOSE k \in S : TRUE
                   IN  Len(recv[s]) + Relayed(S \ {s})

\* C11: a GetProgress / GetChannel call by a valid caller who is not the owner
\* of the in-flight job is answered not-found and obtains no channel, so it
\* never relays an event; the job's channel stays open and registered to its
\* owner, and what the owner has received followed by what is buffered is still
\* exactly what the run sent.
C11_NonOwnerChangesNothing ==
    \A s \in Subs : subs[s].state = "notfound" =>
        /\ subs[s].ch = Nil
        /\ recv[s] = <<>>
        /\ \A id \in JobIds :
              (subs[s].id = id /\ InFlight(id) /\ subs[s].userID # runs[id].userID) =>
                  /\ channels[id] = runs[id].progressChan
                  /\ owners[id] = runs[id].userID
                  /\ ~chans[runs[id].progressChan].closed
                  /\ \A o \in Readers(runs[id].progressChan) :
                        recv[o] \o chans[runs[id].progressChan].buf = emitted[id]

\* the owner was streaming from an in-flight job when another user asked for
\* it and was answered not-found; the owner has since received every event the
\* run sent, three or more
C11_Witness ==
    \E id \in JobIds, s1, s2 \in Subs :
        /\ InFlight(id) /\ s1 < s2
        /\ subs[s1].state = "streaming" /\ subs[s1].id = id
        /\ subs[s2].state = "notfound" /\ subs[s2].id = id
        /\ subs[s2].userID # runs[id].userID
        /\ recv[s1] = emitted[id] /\ Len(recv[s1]) >= 3

\* C12: two jobs with distinct ids have distinct channels; while a job is in
\* flight its channel is registered to it and open whatever the other job's run
\* does (CloseChannel of the other job included), every event relayed from a
\* job's channel was sent by that job's run, and per channel the events relayed
\* plus the events buffered are as many as that job's run sent.
C12_IndependentChannels ==
    \A b \in JobIds : runs[b].pc # "none" =>
        /\ \A a \in JobIds \ {b} :
              runs[a].pc # "none" => runs[a].progressChan # runs[b].progressChan
        /\ InFlight(b) =>
              /\ channels[b] = runs[b].progressChan
              /\ owners[b] = runs[b].userID
              /\ ~chans[runs[b].progressChan].closed
        /\ \A s \in Readers(runs[b].progressChan) :
              Range(recv[s]) \subseteq Range(emitted[b])
        /\ Relayed(Readers(runs[b].progressChan))
              + Len(chans[runs[b].progressChan].buf) = Len(emitted[b])

\* job a has been closed while job b is in flight, with events of b relayed to
\* its subscriber and more of them buffered
C12_Witness ==
    \E a, b \in JobIds, s \in Subs :
        /\ a # b /\ WasClosed(a) /\ InFlight(b)
        /\ subs[s].state = "streaming" /\ subs[s].id = b
        /\ Len(recv[s]) >= 1
        /\ Len(chans[runs[b].progressChan].buf) >= 1

HasCompleted(es) == \E i \in 1..Len(es) : Field(es[i], "status") = "completed"

\* C16: after a run of processDeck has failed at any step and returned, Get on
\* the job-record store returns a record of the job with status failed.
C16_FailurePersisted ==
    \A id \in JobIds :
        (Returned(id) /\ runs[id].failed # "") =>
            Get(id).exists /\ Get(id).status = "failed"

C18_NotFoundCollapsed ==
    /\ \A u \in Users : \A known, unknown \in JobIds :
          (channels[known] # Nil /\ owners[known] # u /\ channels[unknown] = Nil) =>
              /\ GetChannel(known, u) = GetChannel(unknown, u)
              /\ ProgressResponse(known, u) = ProgressResponse(unknown, u)
    /\ \A s \in Subs : subs[s].state = "notfound" => subs[s].ch = Nil

\* a user was answered not-found for a job in flight that another user owns
\* and for an id no job has
C18_Witness ==
    \E known, unknown \in JobIds, s1, s2 \in Subs :
        /\ InFlight(known) /\ runs[unknown].pc = "none"
        /\ subs[s1].state = "notfound" /\ subs[s1].id = known
        /\ subs[s2].state = "notfound" /\ subs[s2].id = unknown
        /\ subs[s1].userID = subs[s2].userID
        /\ subs[s1].userID # runs[known].userID

\* the two maps have the same keys
MapsAgree == \A id \in JobIds : channels[id] = Nil <=> owners[id] = NoOwner

\* C13: in every interleaving of SendUpdate with CloseChannel and other Tracker
\* calls, SendUpdate never sends on a closed channel (which panics the caller).
C13_SendNeverPanics ==
    \A p \in Procs : ops[p].pc # "panic"

\* C14: CreateChannel for an id that is registered leaves the id's channel and
\* owner as they were: while an id stays registered, its channel and its owner
\* do not change.
C14_CreateKeepsRegistered ==
    [][\A id \in JobIds :
          /\ (channels[id] # Nil /\ channels'[id] # Nil) => channels'[id] = channels[id]
          /\ (owners[id] # NoOwner /\ owners'[id] # NoOwner) => owners'[id] = owners[id]]_vars

\* C15: in every state a Tracker operation can observe (nobody is writing, or
\* a goroutine has just taken the write lock, or a goroutine holds the read
\* lock), an id has a channel if and only if it has an owner.
C15_SameKeys ==
    (mu.w = Nil \/ mu.r # {} \/ ops[mu.w].pc = "locked") => MapsAgree

\* a GetChannel holds the read lock on an id that a returned CreateChannel
\* registered, while a CloseChannel of that id waits for the lock
C15_Witness ==
    \E p, q, c \in Procs :
        /\ p \in mu.r /\ ops[p].op = "GetChannel"
        /\ ops[c].op = "CreateChannel" /\ ops[c].pc = "returned"
        /\ ops[c].id = ops[p].id /\ channels[ops[p].id] = ops[c].ch
        /\ ops[q].op = "CloseChannel" /\ ops[q].pc = "lock" /\ ops[q].id = ops[p].id

\* C20: an UpdateVisibility call whose userID is not the owner recorded in the
\* job's row returns the error "unauthorized" and writes nothing: the row's
\* is_public flag is the same when the call returns as when it started, and
\* the row still carries it.
C20_NonOwnerCannotToggle ==
    (reply.deckID # Nil /\ reply.owner # NoOwner /\ reply.userID # reply.owner) =>
        /\ reply.err = "unauthorized"
        /\ reply.after = reply.before
        /\ records[reply.deckID].isPublic = reply.before

\* the owner had made the deck public; a later call by another user asking to
\* make it private returned "unauthorized" and the deck is still public
C20_Witness ==
    /\ reply.err = "unauthorized" /\ reply.userID # reply.owner
    /\ reply.before /\ ~reply.isPublic
    /\ records[reply.deckID].isPublic

\* C19: in the monolith's progress route, only a caller whose resolved identity
\* is the recorded owner of the job is streamed events of the job's channel; a
\* caller with no credential or an invalid one is given none.
C19_MonoOwnerOnly ==
    \A s \in Subs :
        (subs[s].state \in {"streaming", "ended"} \/ recv[s] # <<>>) =>
            subs[s].userID = runs[subs[s].id].userID


C22_CreateNeverWaits ==
    /\ \A u \in Users :
          (FreshId # Nil /\ Started < MaxTasks /\ MayAct(u)) =>
              ENABLED Create([wellFormed |-> TRUE, theme |-> "default"], u)
    /\ post.ok = Cardinality({id \in JobIds : runs[id].pc # "none"})
    /\ post.code = 200 =>
          /\ post.deckId \in JobIds /\ post.status = "processing"
          /\ runs[post.deckId].pc # "none"
          /\ runs[post.deckId].userID = post.userID

\* Create has just returned the second job while the first job's run is between
\* the conversions, its three events buffered and unread by anyone
C22_Witness ==
    /\ post.deckId = 2 /\ post.code = 200 /\ runs[2].pc = "send1"
    /\ runs[1].pc = "html" /\ Len(chans[runs[1].progressChan].buf) = 3
    /\ Readers(runs[1].progressChan) = {}

\* a terminal event is among those relayed to request s
GotTerminal(s) == \E i \in 1..Len(recv[s]) : Terminal(recv[s][i])

\* C23: with every collaborator call returning and every goroutine scheduled, an
\* owner streaming from the job's channel eventually receives a completed or
\* failed event for the job, unless a second subscriber reads from the channel.
C23_OwnerGetsTerminal ==
    \A s \in Subs :
        (subs[s].state = "streaming")
            ~> (GotTerminal(s) \/ Cardinality(Readers(subs[s].ch)) > 1)

\* the only subscriber of a job whose upload failed has received the processing
\* events and the failed event, and is still reading
C23_Witness ==
    \E s \in Subs, id \in JobIds :
        /\ subs[s].state = "streaming" /\ subs[s].id = id
        /\ Readers(runs[id].progressChan) = {s}
        /\ runs[id].failed = "uploadPdf"
        /\ Len(recv[s]) = 5 /\ Field(Last(recv[s]), "status") = "failed"

\* C24: within one run the step index of successive events never decreases,
\* the completed or failed event included.
C24_StepsNonDecreasing ==
    \A id \in JobIds : \A i, j \in 1..Len(emitted[id]) :
        i < j => Field(emitted[id][i], "currentStep") <= Field(emitted[id][j], "currentStep")

\* C25: every event with status processing or failed carries an empty download
\* reference and an empty view reference (both fields are left out of the JSON).
C25_ReferencesOnlyOnCompleted ==
    \A id \in JobIds : \A i \in 1..Len(emitted[id]) :
        Field(emitted[id][i], "status") \in {"processing", "failed"} =>
            /\ StrField(emitted[id][i], "downloadUrl") = EmptyStr
            /\ StrField(emitted[id][i], "viewUrl") = EmptyStr
            /\ ~HasField(emitted[id][i], "downloadUrl")
            /\ ~HasField(emitted[id][i], "viewUrl")

\* a run whose PDF was uploaded (pdfURL is set) and whose HTML upload failed has
\* sent its failed event after four processing events
C25_Witness ==
    \E id \in JobIds :
        /\ runs[id].failed = "uploadHtml" /\ runs[id].pdfURL # EmptyStr
        /\ Len(emitted[id]) = 5 /\ Field(Last(emitted[id]), "status") = "failed"

\* the statements of processDeck and handleError in program order
RunOrder ==
    <<"send1", "images", "send2", "generate", "save", "send3", "pdf", "html",
      "send4", "uploadPdf", "uploadHtml", "saveRecord", "send5", "statusCompleted",
      "close", "sendF", "statusFailed", "done", "panic">>
Rank(pc) == CHOOSE i \in 1..Len(RunOrder) : RunOrder[i] = pc

\* C26: every step of a run moves it to a later statement, so no collaborator
\* action is attempted twice, and once an action has failed with a job-failing
\* error the run only sends the failed event and persists the status: no later
\* step's action is attempted.
C26_FailFastNoRetry ==
    [][\A id \in JobIds :
          (runs[id].pc # "none" /\ runs'[id] # runs[id]) =>
              /\ Rank(runs'[id].pc) > Rank(runs[id].pc)
              /\ runs[id].failed # "" =>
                    /\ runs'[id].failed = runs[id].failed
                    /\ runs'[id].pc \in {"statusFailed", "done"}
                    /\ runs'[id].pdfURL = runs[id].pdfURL
                    /\ runs'[id].htmlURL = runs[id].htmlURL
                    /\ records'[id].exists = records[id].exists]_vars

\* a run has returned after the HTML conversion failed: the PDF was rendered
\* once, nothing was uploaded and no record was saved
C26_Witness ==
    \E id \in JobIds :
        /\ storage /\ Returned(id) /\ runs[id].failed = "html"
        /\ runs[id].pdfURL = EmptyStr /\ ~records[id].exists
        /\ Len(emitted[id]) = 4

\* C27: CloseChannel discards nothing: for a subscriber holding the channel of
\* a closed job, what it has received followed by what is still buffered is what
\* the run sent, in order, and its read loop has ended only when the channel is
\* closed and the buffer is empty, with everything sent received.
C27_DrainThenEnd ==
    \A s \in Subs : subs[s].state \in {"streaming", "ended"} =>
        LET id == subs[s].id
            ch == subs[s].ch
        IN  /\ (WasClosed(id) /\ Readers(ch) = {s}) =>
                   /\ chans[ch].closed
                   /\ recv[s] \o chans[ch].buf = emitted[id]
            /\ subs[s].state = "ended" =>
                   /\ chans[ch].closed /\ chans[ch].buf = <<>>
                   /\ Readers(ch) = {s} => recv[s] = emitted[id]

\* CloseChannel has returned while the subscriber holding the channel had
\* received three events and two (step 4 and completed) were still buffered
C27_Witness ==
    \E s \in Subs, id \in JobIds :
        /\ subs[s].state = "streaming" /\ subs[s].id = id /\ WasClosed(id)
        /\ Len(recv[s]) = 3 /\ Len(chans[subs[s].ch].buf) = 2
        /\ Field(Last(chans[subs[s].ch].buf), "status") = "completed"

\* where e stands in es
Pos(es, e) == CHOOSE i \in 1..Len(es) : es[i] = e

\* C28: when two or more requests read from the same job's channel, the events
\* they have received and the events still buffered are, each exactly once, the
\* events the run sent (the events of one run are pairwise different): none is
\* received by two readers, none is lost, and each reader's events stand in the
\* order they were sent.
C28_ExactlyOneReader ==
    \A id \in JobIds :
      (runs[id].pc # "none" /\ Cardinality(Readers(runs[id].progressChan)) >= 2) =>
        LET ch == runs[id].progressChan
            R == Readers(ch)
        IN  /\ Relayed(R) + Len(chans[ch].buf) = Len(emitted[id])
            /\ UNION {Range(recv[s]) : s \in R} \cup Range(chans[ch].buf)
                  = Range(emitted[id])
            /\ \A s, t \in R : s # t => Range(recv[s]) \cap Range(recv[t]) = {}
            /\ \A s \in R : Range(recv[s]) \cap Range(chans[ch].buf) = {}
            /\ \A s \in R : \A i, j \in 1..Len(recv[s]) :
                   i < j => Pos(emitted[id], recv[s][i]) < Pos(emitted[id], recv[s][j])

\* two requests of the owner read from the same channel; the run has sent its
\* five events and each request has received at least two of them
C28_Witness ==
    \E id \in JobIds, s, t \in Subs :
        /\ s # t /\ runs[id].pc # "none" /\ Readers(runs[id].progressChan) = {s, t}
        /\ Len(emitted[id]) = 5 /\ chans[runs[id].progressChan].buf = <<>>
        /\ Len(recv[s]) >= 2 /\ Len(recv[t]) >= 2
        /\ recv[s][1] = emitted[id][1] /\ recv[t][1] = emitted[id][2]
        /\ recv[s][2] = emitted[id][3]

\* C29: a run emits no more events than the channel holds, so at each of its
\* sends the channel has room, and, with collaborators that return, every run
\* returns with its terminal event sent, whether or not anyone reads.
C29_RunNeverBlocks ==
    \A id \in JobIds :
        /\ [](runs[id].pc \in SendPoints =>
                /\ Len(emitted[id]) < 5
                /\ Len(chans[runs[id].progressChan].buf) < ChanCap)
        /\ (runs[id].pc # "none") ~> (Returned(id) /\ TerminalCount(emitted[id]) = 1)

\* a run has returned with its five events buffered and no request ever
\* obtained its channel
C29_Witness ==
    \E id \in JobIds :
        /\ Returned(id) /\ Readers(runs[id].progressChan) = {}
        /\ Len(chans[runs[id].progressChan].buf) = 5
        /\ chans[runs[id].progressChan].buf = emitted[id]

\* goroutine p holds t.mu, and the statements a Tracker method runs under it
Holds(p) == mu.w = p \/ p \in mu.r
LockedStep(p) ==
    \/ TCreateSetChannel(p) \/ TCreateSetOwner(p) \/ TCloseClose(p)
    \/ TCloseDeleteChannel(p) \/ TCloseDeleteOwner(p) \/ TUnlock(p)
    \/ TGetRead(p) \/ TSendRead(p)

Closers(c) == {p \in Procs : ops[p].op = "CloseChannel" /\ ops[p].ch = c}

\* a registered channel is closed only while the CloseChannel that closed it
\* still holds the lock, about to delete the entry; no channel is closed twice
NoDoubleClose ==
    /\ \A id \in JobIds :
          (channels[id] # Nil /\ chans[channels[id]].closed) =>
              \E p \in Procs : /\ mu.w = p /\ ops[p].pc = "deleteChannel"
                                /\ ops[p].id = id /\ ops[p].ch = channels[id]
    /\ \A c \in 1..Len(chans) : Cardinality(Closers(c)) <= 1

\* C31: a CloseChannel(id) that finds no entry for id (a second CloseChannel,
\* or an id never registered) closes nothing and changes neither map nor any
\* channel in any of its steps, and no channel is ever closed twice.
C31_SecondCloseIsNoop ==
    [][/\ NoDoubleClose'
       /\ \A p \in Procs :
             (ops[p].op = "CloseChannel" /\ ops'[p] # ops[p] /\ ops'[p].ch = Nil) =>
                 UNCHANGED <<channels, owners, chans>>]_vars

\* CreateChannel(id), then a CloseChannel(id) that closed the channel, then a
\* second CloseChannel(id) that found nothing: all three have returned
C31_Witness ==
    \E p, q, r \in Procs :
        /\ ops[p].op = "CreateChannel" /\ ops[p].pc = "returned"
        /\ ops[q].op = "CloseChannel" /\ ops[q].pc = "returned" /\ ops[q].id = ops[p].id
        /\ ops[q].ch = ops[p].ch
        /\ ops[r].op = "CloseChannel" /\ ops[r].pc = "returned" /\ ops[r].id = ops[p].id
        /\ ops[r].ch = Nil
        /\ mu = Unlocked /\ chans[ops[p].ch].closed

\* C32: in the monolith, once a run has returned having closed its channel, on
\* the success path and on every failure path, the job has no entry left in
\* progressChannels or progressOwners, so no later progress request obtains the
\* closed channel.
C32_ClosedIsUnregistered ==
    \A id \in JobIds :
        (Returned(id) /\ runs[id].progressChan # Nil
                      /\ chans[runs[id].progressChan].closed) =>
            /\ channels[id] = Nil
            /\ owners[id] = NoOwner
            /\ \A s \in Subs : subs[s].state = "check" => subs[s].ch # runs[id].progressChan

\* the run of job id has sent its failed event
FailedSent(id) == runs[id].failed # "" /\ runs[id].pc \in {"statusFailed", "done"}
\* the events before the last one
Front(es) == SubSeq(es, 1, Len(es) - 1)
\* the actions of a run, each a step of its own, in the order attempted
OwnSteps == <<"images", "generate", "save", "pdf", "html", "uploadPdf">>
OwnStep(a) == CHOOSE k \in 1..Len(OwnSteps) :
                  OwnSteps[k] = (IF a = "uploadHtml" THEN "uploadPdf" ELSE a)

AnnouncedStep(a) ==
    CASE a \in {"generate", "save"} -> 2
      [] a \in {"pdf", "html"} -> 3
      [] a \in {"uploadPdf", "uploadHtml"} -> 4

C34_ReadsUnderLock ==
    [][\A s \in Subs :
          (subs[s].state = "check" /\ subs'[s].state # "check") => mu.w = Nil]_vars

\* C35: in the monolith a failure of the HTML conversion is a hard failure of
\* the job: a run whose HTML conversion returned an error emits no completed
\* event, and once it has returned its last event is a failed one.
C35_HtmlFailureIsHard ==
    \A id \in JobIds :
        (runs[id].pc # "none" /\ runs[id].logged = "stage5") =>
            /\ ~HasCompleted(emitted[id])
            /\ Returned(id) => Field(Last(emitted[id]), "status") = "failed"

\* the call of cleanMarpContent has returned
Cleaned == marp.pc = "returned"
\* a line that starts with three backticks
IsFence(line) == HasPrefix(line, Fence)
\* the first and the last line of the text are fence lines
Wrapped(lines) == IsFence(lines[1]) /\ IsFence(lines[Len(lines)])
\* the lines strictly between the first and the last
Inner(lines) == SubSeq(lines, 2, Len(lines) - 1)
NoFence(lines) == \A i \in 1..Len(lines) : ~IsFence(lines[i])

\* C36: cleanMarpContent strips surrounding fence markers: a text whose first
\* and last lines are fence lines gives exactly the lines strictly between
\* them, a text without a fence line is returned unchanged, and the result of
\* a wrapped text never begins or ends with a fence line.
C36_StripsFences ==
    Cleaned =>
        LET in == Split(marp.text)
            out == Split(marp.out)
        IN  /\ Wrapped(in) => marp.out = Join(Inner(in), <<"\n">>)
            /\ NoFence(in) => marp.out = marp.text
            /\ Wrapped(in) => ~IsFence(out[1]) /\ ~IsFence(out[Len(out)])

\* C36 (amended): a text of two or more lines whose first and last lines are
\* fence lines gives exactly the lines strictly between them, joined with
\* "\n"; a text with no fence line, or with a single one, is returned
\* unchanged; the result of a wrapped text has a fence line only where the
\* lines between the wrapping fences had one.
C36_StripsOneLayer ==
    Cleaned =>
        LET in == Split(marp.text)
            out == Split(marp.out)
        IN  /\ (Len(in) >= 2 /\ Wrapped(in)) => marp.out = Join(Inner(in), <<"\n">>)
            /\ Cardinality(BacktickLines(in)) <= 1 => marp.out = marp.text
            /\ (Len(in) >= 2 /\ Wrapped(in) /\ NoFence(Inner(in))) => NoFence(out)

C36_Witness ==
    /\ Cleaned
    /\ marp.text = Join(<<Fence \o <<"a">>, <<"a">>, <<>>, Fence>>, <<"\r", "\n">>)
    /\ marp.out = <<"a", "\n">>

\* C37: events emitted before anyone subscribes stay buffered: while no request
\* holds a job's channel the buffer holds every event the run has emitted, and
\* a request that is the only one to hold it has received the run's events
\* from the first one on, in order, with the rest buffered behind them; when
\* its stream has ended after CloseChannel it has received them all.
C37_BufferedUntilSubscribed ==
    \A id \in JobIds : runs[id].pc # "none" =>
        LET ch == runs[id].progressChan
        IN  /\ Readers(ch) = {} => chans[ch].buf = emitted[id]
            /\ \A s \in Subs : Readers(ch) = {s} =>
                   /\ Len(recv[s]) <= Len(emitted[id])
                   /\ recv[s] = SubSeq(emitted[id], 1, Len(recv[s]))
                   /\ chans[ch].buf = SubSeq(emitted[id], Len(recv[s]) + 1, Len(emitted[id]))
                   /\ (subs[s].state = "ended" /\ WasClosed(id)) => recv[s] = emitted[id]

\* one run has emitted its five events and closed with nobody subscribed, all
\* five still buffered; the owner of the other subscribed alone, has received
\* the first two events, and the two sent since are buffered
C37_Witness ==
    \E id, other \in JobIds, s \in Subs :
        /\ WasClosed(other) /\ Readers(runs[other].progressChan) = {}
        /\ Len(chans[runs[other].progressChan].buf) = 5
        /\ InFlight(id) /\ Readers(runs[id].progressChan) = {s}
        /\ subs[s].state = "streaming" /\ subs[s].userID = runs[id].userID
        /\ Len(recv[s]) = 2 /\ Field(recv[s][1], "currentStep") = 1
        /\ Len(chans[runs[id].progressChan].buf) = 2

\* the calls of the run of job id made before its CloseChannel
BeforeClose(cs) ==
    IF "CloseChannel" \in Range(cs) THEN SubSeq(cs, 1, Pos(cs, "CloseChannel") - 1) ELSE cs

\* C38: Create registers the channel and the owner before the run starts: no
\* SendUpdate of a run fails with "no progress channel" before the run's own
\* CloseChannel, and a GetChannel by the owner for a job that Create has
\* returned is answered not-found only if the run has closed the channel.
C38_RegisteredBeforeRun ==
    [][/\ \A id \in JobIds : "SendUpdate:error" \notin Range(BeforeClose(calls'[id]))
       /\ \A s \in Subs, id \in JobIds :
             (/\ subs[s].state = "idle" /\ subs'[s].state = "notfound"
              /\ subs'[s].id = id /\ runs[id].pc # "none"
              /\ subs'[s].userID = runs[id].userID) => WasClosed(id)]_vars

\* every SendUpdate of a run succeeded up to its CloseChannel and the owner's
\* request made after it was answered not-found, while a job created since
\* has sent its first event
C38_Witness ==
    \E id, other \in JobIds, s \in Subs :
        /\ calls[id] = <<"SendUpdate", "SendUpdate", "SendUpdate", "SendUpdate",
                         "SendUpdate", "CloseChannel">>
        /\ subs[s].state = "notfound" /\ subs[s].id = id
        /\ subs[s].userID = runs[id].userID
        /\ calls[other] = <<"SendUpdate">> /\ channels[other] = runs[other].progressChan

\* the step emits the completed event of job id
EmitsCompleted(id) ==
    /\ emitted'[id] # emitted[id]
    /\ Field(Last(emitted'[id]), "status") = "completed"
\* SavePitchDeckRecord has been called for job id: the row is there or the
\* error was logged
SaveAttempted(id) == records[id].exists \/ runs[id].logged = "saveRecord"

\* C39: with a storage collaborator, the completed event is emitted only after
\* both uploads have succeeded and the record save has been attempted, and it
\* is followed by the status update to completed and then by CloseChannel: the
\* status update is made only with the completed event emitted and the channel
\* not yet closed, and CloseChannel only after the status update has returned.
C39_CompletedThenStatusThenClose ==
    [][\A id \in JobIds : storage =>
          /\ EmitsCompleted(id) =>
                /\ runs[id].pdfURL = PublicURL("pitch-decks", <<id, ".pdf">>)
                /\ runs[id].htmlURL = PublicURL("pitch-decks", <<id, ".html">>)
                /\ SaveAttempted(id)
                /\ runs'[id].pc = "statusCompleted"
          /\ (runs[id].pc = "statusCompleted" /\ runs'[id].pc # "statusCompleted") =>
                /\ HasCompleted(emitted[id]) /\ ~WasClosed(id)
                /\ runs'[id].pc = "close" /\ ~WasClosed(id)'
          /\ (~WasClosed(id) /\ WasClosed(id)') =>
                /\ runs[id].pc = "close" /\ HasCompleted(emitted[id])
                /\ Last(emitted[id]) = Last(emitted'[id])]_vars

\* a run with storage has closed after a completed event that names both
\* uploaded files, although its record save returned an error
C39_Witness ==
    \E id \in JobIds :
        /\ storage /\ Returned(id) /\ WasClosed(id)
        /\ Field(Last(emitted[id]), "status") = "completed"
        /\ Field(Last(emitted[id]), "downloadUrl") = PublicURL("pitch-decks", <<id, ".pdf">>)
        /\ Field(Last(emitted[id]), "viewUrl") = PublicURL("pitch-decks", <<id, ".html">>)
        /\ runs[id].logged = "saveRecord" /\ ~records[id].exists

====
